---------------------------- MODULE Spec2Model ----------------------------
(***************************************************************************)
(* Model of the print endpoint of the KAMAYAN POS print server             *)
(* (src/server/index.js, app.post('/api/print')): request validation, the  *)
(* promise executor that opens one TCP socket to the printer, the four     *)
(* socket event handlers (timeout, error, connect, close) sharing the      *)
(* resolveOnce latch, and the then-callback that turns the outcome into    *)
(* the HTTP response.                                                      *)
(*                                                                         *)
(* The socket is the environment.  A handler runs to completion, so each   *)
(* event is one atomic action.  Two transports are modelled: "stub" emits  *)
(* the four events in any order, each kind up to MaxRepeat times (every    *)
(* ordering a handler set can be driven with); "net" follows the life      *)
(* cycle of net.Socket (one connect, an error is followed by close, a      *)
(* destroyed socket only closes, nothing follows close).                   *)
(***************************************************************************)
EXTENDS Integers, Sequences, FiniteSets, TLC

VARIABLES
  att,          \* att[a]: the state of request slot a (closure state,
                \* socket, promise, response), a record built by Fresh
  transport     \* "stub" or "net": which event orders the socket can emit

vars == <<att, transport>>

-----------------------------------------------------------------------------
(* Bounds and program constants *)

MaxRepeat == 2            \* each socket event kind is emitted at most this often

DefaultPort == 9100       \* port || 9100
MinPort == 1              \* printerPort < 1
MaxPort == 65535          \* printerPort > 65535
TimeoutMs == 10000        \* socket.setTimeout(10000)
ByteRange == 256          \* Buffer.from stores each element modulo 256

Attempts == {1}           \* request slots

-----------------------------------------------------------------------------
(* Request bodies: req.body = { ip, port, data } *)

Absent == [present |-> FALSE]
Str(chars) == [present |-> TRUE, chars |-> chars]
Num(n) == [present |-> TRUE, numeric |-> TRUE, val |-> n]
NotNum == [present |-> TRUE, numeric |-> FALSE]    \* e.g. the string "abc"
Arr(elems) == [present |-> TRUE, isArray |-> TRUE, elems |-> elems]
NotArr == [present |-> TRUE, isArray |-> FALSE]

Digits == {"0", "1", "2", "3", "4", "5", "6", "7", "8", "9"}

IpValues ==
  { Absent,
    Str(<<>>),
    Str(<<"1", "0", ".", "0", ".", "0", ".", "5">>),
    Str(<<"9", "9", "9", ".", "9", "9", "9", ".", "9", "9", "9", ".", "9", "9", "9">>),
    Str(<<"1", ".", "2", ".", "3">>),
    Str(<<"1", ".", "2", ".", "3", ".", "4", ".", "5">>),
    Str(<<"1", "2", "3", "4", ".", "1", ".", "1", ".", "1">>),
    Str(<<"1", ".", ".", "2", ".", "3">>),
    Str(<<"a", ".", "b", ".", "c", ".", "d">>),
    Str(<<"1", ".", "2", ".", "3", ".", "4", "x">>) }

PortValues ==
  { Absent, NotNum,
    Num(-1), Num(0), Num(1), Num(515), Num(9100), Num(65535), Num(65536) }

DataValues ==
  { Absent, NotArr, Arr(<<>>), Arr(<<27, 64, 10>>), Arr(<<300, -1>>) }

Requests == [ip : IpValues, port : PortValues, data : DataValues]

\* Messages of the errors the transport raises or emits; NoMessage is an
\* error whose message is empty or undefined.
NoMessage == ""
ErrorMessages == {"ECONNREFUSED", NoMessage}
ThrowMessages == {"EINVAL"}
BadPortMessage == "Port should be >= 0 and < 65536"
NoThrow == "no throw"

-----------------------------------------------------------------------------
(* Validation, lines 69-114 *)

\* !v for a string or undefined ip
FalsyIp(ip) == ~ip.present \/ ip.chars = <<>>

\* a required-fields check that takes an empty array for a missing one
FalsyOrEmptyOrNotArray(data) ==
  ~data.present \/ ~data.isArray \/ data.elems = <<>>

\* !data || !Array.isArray(data); an array, even empty, is truthy
FalsyOrNotArray(data) == ~data.present \/ ~data.isArray

\* /^(\d{1,3}\.){3}\d{1,3}$/ matched from position i with `dotted` groups
\* "\d{1,3}\." still to come before the last group
RECURSIVE MatchFrom(_, _, _)
MatchFrom(s, i, dotted) ==
  \E n \in 1..3 :
    /\ i + n - 1 <= Len(s)
    /\ \A k \in i..(i + n - 1) : s[k] \in Digits
    /\ IF dotted = 0
         THEN i + n - 1 = Len(s)
         ELSE /\ i + n <= Len(s)
              /\ s[i + n] = "."
              /\ MatchFrom(s, i + n + 1, dotted - 1)

ipRegexTest(ip) == MatchFrom(ip.chars, 1, 3)

\* const printerPort = port || 9100  (undefined and 0 are falsy)
\* a port that is always the default
printerPortIgnoresRequest(port) == Num(DefaultPort)

printerPort(port) ==
  IF port.present /\ ~(port.numeric /\ port.val = 0) THEN port ELSE Num(DefaultPort)

\* p < n and p > n of JavaScript: false when p does not convert to a number
Less(p, n) == p.numeric /\ p.val < n
Greater(p, n) == p.numeric /\ p.val > n

\* Buffer.from(array): one byte per element, the element modulo 256
BufferFrom(elems) == [i \in 1..Len(elems) |-> elems[i] % ByteRange]

Status400(body) == [status |-> 400, body |-> body]

InvalidRequestBody ==
  [success |-> FALSE, error |-> "Invalid request",
   message |-> "IP address and data array are required"]
InvalidIpBody == [success |-> FALSE, error |-> "Invalid IP address format"]
InvalidPortBody ==
  [success |-> FALSE, error |-> "Invalid port number (must be 1-65535)"]
EmptyDataBody == [success |-> FALSE, error |-> "Print data is empty"]

Passed == [status |-> 0]

\* a validation that checks the port range before the address format
ValidationPortFirst(req) ==
  IF FalsyIp(req.ip) \/ FalsyOrNotArray(req.data) THEN Status400(InvalidRequestBody)
  ELSE IF Less(printerPort(req.port), MinPort) \/ Greater(printerPort(req.port), MaxPort)
    THEN Status400(InvalidPortBody)
  ELSE IF ~ipRegexTest(req.ip) THEN Status400(InvalidIpBody)
  ELSE IF Len(BufferFrom(req.data.elems)) = 0 THEN Status400(EmptyDataBody)
  ELSE Passed

\* The response the validation section returns, or Passed when control
\* reaches the promise executor.  Buffer.from of an array does not throw,
\* so the catch of lines 108-114 is never entered.
Validation(req) ==
  IF FalsyIp(req.ip) \/ FalsyOrNotArray(req.data) THEN Status400(InvalidRequestBody)
  ELSE IF ~ipRegexTest(req.ip) THEN Status400(InvalidIpBody)
  ELSE IF Less(printerPort(req.port), MinPort) \/ Greater(printerPort(req.port), MaxPort)
    THEN Status400(InvalidPortBody)
  ELSE IF Len(BufferFrom(req.data.elems)) = 0 THEN Status400(EmptyDataBody)
  ELSE Passed

-----------------------------------------------------------------------------
(* The relay attempt: closure state of the promise executor, lines 118-196 *)

NoOutcome == [pending |-> TRUE]
NoTarget == [none |-> TRUE]

Failure(msg) == [success |-> FALSE, error |-> msg]
Success(msg) == [success |-> TRUE, message |-> msg]

TimeoutResult == Failure("Connection timeout - printer may be offline or unreachable")
ErrorResult(msg) == Failure(IF msg = NoMessage THEN "Connection failed" ELSE msg)
SendFailedResult(msg) == Failure("Failed to send data: " \o msg)
SuccessResult == Success("Print job sent successfully")
ClosedResult == Failure("Connection closed unexpectedly")
ConnectFailedResult(msg) == Failure("Failed to connect: " \o msg)

\* A request that has arrived and whose handler has not run yet
Fresh(req) ==
  [ req |-> req,
    pc |-> "received",        \* received, rejected, waiting
    sockets |-> 0,            \* new net.Socket() calls
    timeoutMs |-> 0,          \* socket.setTimeout argument
    connectCalls |-> 0,       \* socket.connect calls
    connectThrew |-> FALSE,   \* socket.connect threw
    target |-> NoTarget,      \* arguments of socket.connect
    buffer |-> <<>>,          \* the validated byte buffer
    destroyed |-> FALSE,      \* socket.destroy() was called, by a handler or
                              \* by net.Socket itself before it emits error
    ended |-> FALSE,          \* socket.end() returned
    written |-> <<>>,         \* buffers handed to socket.write, in order
    connected |-> FALSE,
    printSuccess |-> FALSE,
    resolved |-> FALSE,
    resolveCalls |-> 0,       \* calls of the promise's resolve
    outcome |-> NoOutcome,    \* the value the promise is settled with
    atSettle |-> NoTarget,    \* the socket at the settling call of resolve
    settledBy |-> "none",     \* the handler that made the settling call
    lastError |-> "none",     \* message of the latest error event
    nTimeout |-> 0, nError |-> 0, nConnect |-> 0, nClose |-> 0,
    responses |-> <<>> ]      \* res.status(..).json(..) calls, in order

\* resolve(result) of the promise: the first call settles it
PromiseResolve(s, result, by) ==
  [s EXCEPT !.resolveCalls = @ + 1,
            !.outcome = IF s.outcome = NoOutcome THEN result ELSE @,
            !.atSettle = IF s.outcome = NoOutcome
                           THEN [destroyed |-> s.destroyed, ended |-> s.ended,
                                 closed |-> s.nClose > 0]
                           ELSE @,
            !.settledBy = IF s.outcome = NoOutcome THEN by ELSE @]

\* resolveOnce without its guard: every call reaches resolve
resolveOnceUnguarded(s, result, by) ==
  PromiseResolve([s EXCEPT !.resolved = TRUE], result, by)

\* resolveOnce with its guard inverted: no call reaches resolve
resolveOnceInverted(s, result, by) ==
  IF s.resolved
    THEN PromiseResolve([s EXCEPT !.resolved = TRUE], result, by)
    ELSE s

\* resolveOnce, lines 127-132
resolveOnce(s, result, by) ==
  IF ~s.resolved
    THEN PromiseResolve([s EXCEPT !.resolved = TRUE], result, by)
    ELSE s

SocketDestroy(s) == [s EXCEPT !.destroyed = TRUE]

\* a timeout handler that resolves before it destroys the socket
OnTimeoutResolvesFirst(s) == SocketDestroy(resolveOnce(s, TimeoutResult, "timeout"))

\* a timeout handler that lets a job that was written run on
OnTimeoutSkipsAfterWrite(s) ==
  IF s.printSuccess THEN s ELSE resolveOnce(SocketDestroy(s), TimeoutResult, "timeout")

\* socket.on('timeout'), lines 134-141
OnTimeout(s) == resolveOnce(SocketDestroy(s), TimeoutResult, "timeout")

\* an error handler without the fallback message
OnErrorNoFallback(s, msg) == resolveOnce(s, Failure(msg), "error")

\* an error handler that connects again
OnErrorReconnects(s, msg) ==
  [resolveOnce(s, ErrorResult(msg), "error") EXCEPT !.connectCalls = @ + 1]

\* socket.on('error'), lines 143-149
OnError(s, msg) == resolveOnce(s, ErrorResult(msg), "error")

\* a connect handler that reports success as soon as the write returned
OnConnectResolvesSuccess(s, at, thrown) ==
  LET c == [s EXCEPT !.connected = TRUE]
      w == [c EXCEPT !.written = Append(@, c.buffer)]
  IN  IF thrown = NoThrow
        THEN resolveOnce([w EXCEPT !.ended = TRUE, !.printSuccess = TRUE],
                         SuccessResult, "connect")
        ELSE resolveOnce(SocketDestroy(IF at = "write" THEN c ELSE w),
                         SendFailedResult(thrown), "connect")

\* a connect handler whose catch destroys the socket and resolves nothing
OnConnectSilentCatch(s, at, thrown) ==
  LET c == [s EXCEPT !.connected = TRUE]
      w == [c EXCEPT !.written = Append(@, c.buffer)]
  IN  IF thrown = NoThrow
        THEN [w EXCEPT !.ended = TRUE, !.printSuccess = TRUE]
        ELSE SocketDestroy(IF at = "write" THEN c ELSE w)

\* a connect handler that sets printSuccess before it writes
OnConnectFlagsFirst(s, at, thrown) ==
  LET c == [s EXCEPT !.connected = TRUE, !.printSuccess = TRUE]
      w == [c EXCEPT !.written = Append(@, c.buffer)]
  IN  IF thrown = NoThrow
        THEN [w EXCEPT !.ended = TRUE]
        ELSE resolveOnce(SocketDestroy(IF at = "write" THEN c ELSE w),
                         SendFailedResult(thrown), "connect")

\* socket.on('connect'), lines 151-168; thrown is NoThrow, or the message of
\* the error socket.write ("write") or socket.end ("end") throws
OnConnect(s, at, thrown) ==
  LET c == [s EXCEPT !.connected = TRUE]
      w == [c EXCEPT !.written = Append(@, c.buffer)]
  IN  IF thrown = NoThrow
        THEN [w EXCEPT !.ended = TRUE, !.printSuccess = TRUE]
        ELSE resolveOnce(SocketDestroy(IF at = "write" THEN c ELSE w),
                         SendFailedResult(thrown), "connect")

\* a close handler without the branch for a close before connect
OnCloseNoPremature(s) ==
  IF s.connected /\ s.printSuccess THEN resolveOnce(s, SuccessResult, "close") ELSE s

\* a close handler that forgets the success branch
OnCloseIgnoresSuccess(s) ==
  IF ~s.resolved THEN resolveOnce(s, ClosedResult, "close") ELSE s

\* socket.on('close'), lines 170-184
OnClose(s) ==
  IF s.connected /\ s.printSuccess
    THEN resolveOnce(s, SuccessResult, "close")
  ELSE IF ~s.connected /\ ~s.resolved
    THEN resolveOnce(s, ClosedResult, "close")
  ELSE s

\* socket.connect(port, host) validates its port synchronously: it throws
\* for a port that is no number in 0..65535, and otherwise reports through
\* events
ConnectThrows(port) == IF port.numeric THEN NoThrow ELSE BadPortMessage

\* an executor that writes as soon as connect was called
ExecutorWritesEarly(s, port, host, buf) ==
  [s EXCEPT !.pc = "waiting",
            !.sockets = @ + 1,
            !.timeoutMs = TimeoutMs,
            !.buffer = buf,
            !.connectCalls = @ + 1,
            !.target = [port |-> port, host |-> host],
            !.written = Append(@, buf),
            !.ended = TRUE]

\* The promise executor, lines 118-196: one socket, the timeout, the
\* handlers, then socket.connect, which may throw synchronously
Executor(s, port, host, buf) ==
  LET o == [s EXCEPT !.pc = "waiting",
                     !.sockets = @ + 1,
                     !.timeoutMs = TimeoutMs,
                     !.buffer = buf,
                     !.connectCalls = @ + 1,
                     !.target = [port |-> port, host |-> host]]
  IN  IF ConnectThrows(port) = NoThrow
        THEN o
        ELSE resolveOnce([o EXCEPT !.connectThrew = TRUE],
                         ConnectFailedResult(ConnectThrows(port)), "executor")

\* a route handler that creates the socket before it validates
PrintHandlerSocketFirst(s) ==
  LET v == Validation(s.req)
      o == [s EXCEPT !.sockets = @ + 1]
  IN  IF v # Passed
        THEN [o EXCEPT !.pc = "rejected", !.responses = Append(@, v)]
        ELSE Executor(s, printerPort(s.req.port), s.req.ip.chars,
                      BufferFrom(s.req.data.elems))

\* The route handler up to the return of the promise, lines 61-196
PrintHandler(s) ==
  LET v == Validation(s.req)
  IN  IF v # Passed
        THEN [s EXCEPT !.pc = "rejected", !.responses = Append(@, v)]
        ELSE Executor(s, printerPort(s.req.port), s.req.ip.chars,
                      BufferFrom(s.req.data.elems))

\* a then callback that forgets res.status(500)
ThenCallbackAlways200(s) ==
  [s EXCEPT !.responses = Append(@, [status |-> 200, body |-> s.outcome])]

\* .then((result) => ...), lines 197-203
ThenCallback(s) ==
  [s EXCEPT !.responses =
     Append(@, [status |-> IF s.outcome.success THEN 200 ELSE 500,
                body |-> s.outcome])]

-----------------------------------------------------------------------------
(* Actions *)

\* Whether the transport can emit the event now.  For net.Socket: connect
\* once, while connecting; error once, on a live socket whose connect was
\* started; timeout while the idle timer is armed (cleared by destroy); close
\* once, after an error, a destroy, or the peer's FIN answering end().
Live(s) == ~s.destroyed /\ s.nError = 0 /\ s.nClose = 0

NetEmits(s, event) ==
  CASE event = "connect" -> Live(s) /\ ~s.connectThrew /\ s.nConnect = 0
    [] event = "error"   -> Live(s) /\ ~s.connectThrew
    [] event = "timeout" -> Live(s)
    [] event = "close"   -> /\ s.nClose = 0
                            /\ s.destroyed \/ s.nError > 0 \/ s.ended

\* A connect call that threw started no connection, so on either transport
\* it neither completes nor fails; the idle timer runs all the same.
Emits(a, event) ==
  /\ att[a].pc = "waiting"
  /\ event \in {"connect", "error"} => ~att[a].connectThrew
  /\ transport = "net" => NetEmits(att[a], event)

HandlePrint(a) ==
  /\ att[a].pc = "received"
  /\ att' = [att EXCEPT ![a] = PrintHandler(att[a])]
  /\ UNCHANGED transport

\* a timeout whose handler works on flags shared by all requests
SocketTimeoutShared(a) ==
  /\ Emits(a, "timeout")
  /\ att[a].nTimeout < MaxRepeat
  /\ att' = [b \in DOMAIN att |->
               IF b = a THEN OnTimeout([att[a] EXCEPT !.nTimeout = @ + 1])
               ELSE IF att[b].pc = "waiting" THEN OnTimeout(att[b])
               ELSE att[b]]
  /\ UNCHANGED transport

SocketTimeout(a) ==
  /\ Emits(a, "timeout")
  /\ att[a].nTimeout < MaxRepeat
  /\ att' = [att EXCEPT ![a] = OnTimeout([att[a] EXCEPT !.nTimeout = @ + 1])]
  /\ UNCHANGED transport

\* net.Socket destroys itself on an error and then emits it
SocketError(a) ==
  /\ Emits(a, "error")
  /\ att[a].nError < MaxRepeat
  /\ \E msg \in ErrorMessages :
       att' = [att EXCEPT ![a] =
                 OnError([att[a] EXCEPT !.nError = @ + 1, !.lastError = msg,
                                        !.destroyed = @ \/ transport = "net"],
                         msg)]
  /\ UNCHANGED transport

SocketConnect(a) ==
  /\ Emits(a, "connect")
  /\ att[a].nConnect < MaxRepeat
  /\ \E at \in {"write", "end"}, thrown \in {NoThrow} \cup ThrowMessages :
       att' = [att EXCEPT ![a] =
                 OnConnect([att[a] EXCEPT !.nConnect = @ + 1], at, thrown)]
  /\ UNCHANGED transport

SocketClose(a) ==
  /\ Emits(a, "close")
  /\ att[a].nClose < MaxRepeat
  /\ att' = [att EXCEPT ![a] = OnClose([att[a] EXCEPT !.nClose = @ + 1])]
  /\ UNCHANGED transport

Respond(a) ==
  /\ att[a].pc = "waiting"
  /\ att[a].outcome # NoOutcome
  /\ att[a].responses = <<>>
  /\ att' = [att EXCEPT ![a] = ThenCallback(att[a])]
  /\ UNCHANGED transport

InitWith(t) ==
  /\ transport = t
  /\ \E req \in Requests : att = [a \in Attempts |-> Fresh(req)]

Init == InitWith("stub")

InitNet == InitWith("net")

\* Two requests in flight, to the same printer or to two printers, one of
\* them possibly with a port socket.connect rejects
Pair == {1, 2}

PairRequests ==
  { r \in Requests :
      /\ r.ip \in { Str(<<"1", "0", ".", "0", ".", "0", ".", "5">>),
                    Str(<<"9", "9", "9", ".", "9", "9", "9", ".", "9", "9", "9", ".",
                          "9", "9", "9">>) }
      /\ r.port \in {Absent, NotNum}
      /\ r.data = Arr(<<27, 64, 10>>) }

InitPair ==
  /\ transport = "net"
  /\ \E reqs \in [Pair -> PairRequests] : att = [a \in Pair |-> Fresh(reqs[a])]

Next ==
  \E a \in Attempts :
    \/ HandlePrint(a)
    \/ SocketTimeout(a)
    \/ SocketError(a)
    \/ SocketConnect(a)
    \/ SocketClose(a)
    \/ Respond(a)

Spec == Init /\ [][Next]_vars

NetSpec == InitNet /\ [][Next]_vars

PairNext ==
  \E a \in Pair :
    \/ HandlePrint(a)
    \/ SocketTimeout(a)
    \/ SocketError(a)
    \/ SocketConnect(a)
    \/ SocketClose(a)
    \/ Respond(a)

PairSpec == InitPair /\ [][PairNext]_vars

\* The socket's idle timer (socket.setTimeout, line 125) is armed before
\* connect is called, so a socket that neither errors nor closes emits
\* timeout: one of the three events eventually happens.
LiveSpec ==
  Spec /\ \A a \in Attempts :
            WF_vars(SocketTimeout(a) \/ SocketError(a) \/ SocketClose(a))

\* The route handler runs when the request is dispatched and the then
\* callback is a microtask queued when the promise settles: both run.
ResponseSpec ==
  LiveSpec /\ \A a \in Attempts : WF_vars(HandlePrint(a)) /\ WF_vars(Respond(a))

-----------------------------------------------------------------------------
(* Properties *)

EventStep(a, n) == att'[a][n] = att[a][n] + 1

\* C1: for every ordering and repetition of timeout, error, connect and
\* close (and a synchronous throw from connect) the promise's resolve is
\* called at most once, and once resolved is true the flag, the recorded
\* outcome and the number of resolve calls never change again.
ResolvedAtMostOnce ==
  /\ [](\A a \in Attempts :
          /\ att[a].resolveCalls <= 1
          /\ att[a].resolved <=> att[a].outcome # NoOutcome)
  /\ [][\A a \in Attempts :
          att[a].resolved =>
            /\ att'[a].resolved
            /\ att'[a].outcome = att[a].outcome
            /\ att'[a].resolveCalls = att[a].resolveCalls]_vars

\* A timeout and an error arrived after the close that resolved Success,
\* and close was emitted again.
LateEventsAfterSuccess ==
  \E a \in Attempts :
    /\ att[a].outcome = SuccessResult
    /\ att[a].nTimeout >= 1
    /\ att[a].nError >= 1
    /\ att[a].nClose = MaxRepeat

\* C2: every attempt that passed validation produces exactly one outcome:
\* resolve is never called twice, and under LiveSpec it is eventually
\* called once.
ExactlyOneOutcome ==
  /\ [](\A a \in Attempts : att[a].resolveCalls <= 1)
  /\ \A a \in Attempts :
       (att[a].pc = "waiting") ~> (att[a].resolveCalls = 1 /\ att[a].resolved)

\* error-then-close and then a timeout, with one outcome
ErrorCloseTimeoutOneOutcome ==
  \E a \in Attempts :
    /\ att[a].settledBy = "error"
    /\ att[a].nClose >= 1
    /\ att[a].nTimeout >= 1
    /\ att[a].resolveCalls = 1

WriteIssued(a) == att[a].connected /\ att[a].printSuccess

\* C3 as stated: whenever close occurs after a successful write was issued,
\* the attempt's outcome is Success "Print job sent successfully".
CloseAfterWriteIsSuccess ==
  [][\A a \in Attempts :
       (WriteIssued(a) /\ EventStep(a, "nClose")) =>
         att'[a].outcome = SuccessResult]_vars

\* C3 amended: whenever close occurs after a successful write was issued
\* and no outcome was resolved before, the attempt resolves Success "Print
\* job sent successfully" with a single resolve call; a close after an
\* earlier resolution leaves the outcome as it was.
CloseAfterWriteUnresolvedIsSuccess ==
  [][\A a \in Attempts :
       (WriteIssued(a) /\ EventStep(a, "nClose")) =>
         IF att[a].resolved
           THEN att'[a].outcome = att[a].outcome
           ELSE /\ att'[a].outcome = SuccessResult
                /\ att'[a].settledBy = "close"
                /\ att'[a].resolveCalls = 1]_vars

\* connect, write, close and nothing else: Success, resolved once
ConnectWriteCloseSuccess ==
  \E a \in Attempts :
    /\ att[a].nConnect = 1 /\ att[a].nClose = 1
    /\ att[a].nTimeout = 0 /\ att[a].nError = 0
    /\ att[a].written = <<att[a].buffer>>
    /\ att[a].outcome = SuccessResult
    /\ att[a].resolveCalls = 1

Reported(a) ==
  IF att'[a].lastError = NoMessage THEN "Connection failed" ELSE att'[a].lastError

PrematureCloseIsFailure ==
  [][\A a \in Attempts :
       EventStep(a, "nClose") =>
         /\ (~WriteIssued(a) /\ ~att[a].resolved) =>
              /\ att'[a].outcome = ClosedResult
              /\ att'[a].resolved
              /\ att'[a].resolveCalls = 1
         /\ att[a].resolved =>
              /\ att'[a].outcome = att[a].outcome
              /\ att'[a].resolveCalls = att[a].resolveCalls]_vars

\* the socket closed before any connect, error or timeout
ClosedBeforeConnect ==
  \E a \in Attempts :
    /\ att[a].nConnect = 0
    /\ att[a].settledBy = "close"
    /\ att[a].outcome = ClosedResult

\* Four dot-separated groups of 1-3 digits, by the positions of the dots
FourGroups(chars) ==
  LET dots == {i \in 1..Len(chars) : chars[i] = "."}
  IN  /\ Cardinality(dots) = 3
      /\ \A i \in (1..Len(chars)) \ dots : chars[i] \in Digits
      /\ \A i \in dots \cup {0} :
           LET next == {j \in dots \cup {Len(chars) + 1} : j > i}
               stop == CHOOSE j \in next : \A k \in next : j <= k
           IN  stop - i - 1 \in 1..3

\* The resolved port is outside 1..65535.  Port 0 is replaced by the default
\* before the range check (see C8), so it fails no check of the code.
ResolvedPortOutOfRange(port) ==
  /\ port.present /\ port.numeric /\ port.val # 0
  /\ port.val < 1 \/ port.val > 65535

FailsValidation(req) ==
  \/ ~req.ip.present \/ ~req.data.present
  \/ req.ip.chars = <<>>
  \/ ~req.data.isArray
  \/ ~FourGroups(req.ip.chars)
  \/ ResolvedPortOutOfRange(req.port)
  \/ req.data.elems = <<>>

\* C7: validation completes before any socket is opened: a handled request
\* that fails a validation check has exactly one response, a 400, and no
\* socket was created and no connect was called for it; only a request that
\* fails none has a socket.
ValidationBeforeSocket ==
  \A a \in Attempts :
    /\ (att[a].pc # "received" /\ FailsValidation(att[a].req)) =>
         /\ Len(att[a].responses) = 1
         /\ att[a].responses[1].status = 400
         /\ att[a].sockets = 0
         /\ att[a].connectCalls = 0
         /\ att[a].pc = "rejected"
    /\ (att[a].pc = "rejected") => (att[a].sockets = 0 /\ att[a].connectCalls = 0)

\* a request with a malformed address was answered 400 without a socket
BadAddressRejected ==
  \E a \in Attempts :
    /\ att[a].req.ip.present /\ att[a].req.ip.chars # <<>>
    /\ att[a].req.data.present /\ att[a].req.data.isArray
    /\ ~FourGroups(att[a].req.ip.chars)
    /\ att[a].responses = <<Status400(InvalidIpBody)>>
    /\ att[a].sockets = 0

OtherwiseValid(req) ==
  /\ req.ip.present /\ req.ip.chars # <<>> /\ FourGroups(req.ip.chars)
  /\ req.data.present /\ req.data.isArray /\ req.data.elems # <<>>

\* C8: every request with an integer port p < 1 or p > 65535 (p = 0
\* included) and an otherwise well-formed address and non-empty payload
\* array is answered 400 "Invalid port number (must be 1-65535)" and no connection
\* attempt is made.
PortOutOfRangeRejected ==
  \A a \in Attempts :
    LET port == att[a].req.port
    IN  ( /\ att[a].pc # "received"
          /\ OtherwiseValid(att[a].req)
          /\ port.present /\ port.numeric
          /\ port.val < 1 \/ port.val > 65535 ) =>
          /\ att[a].responses = <<Status400(InvalidPortBody)>>
          /\ att[a].sockets = 0
          /\ att[a].connectCalls = 0

\* C9: the connection is made to the supplied address unchanged, to port
\* 9100 when the request has no port and to the supplied port when it is in
\* 1..65535.
ConnectsToRequestedTarget ==
  \A a \in Attempts :
    LET port == att[a].req.port
    IN  att[a].connectCalls >= 1 =>
          /\ att[a].target.host = att[a].req.ip.chars
          /\ ~port.present => att[a].target.port = Num(9100)
          /\ (port.present /\ port.numeric /\ port.val \in 1..65535) =>
               att[a].target.port = Num(port.val)

\* a request without port was connected on port 9100
DefaultPortConnected ==
  \E a \in Attempts :
    /\ ~att[a].req.port.present
    /\ att[a].nConnect >= 1
    /\ att[a].target.port = Num(9100)

\* C10: a request that passed validation has exactly one socket and one
\* connect call on it, whatever events and outcomes follow; a rejected
\* request has none.
OneSocketNoRetry ==
  \A a \in Attempts :
    /\ att[a].pc = "waiting" => (att[a].sockets = 1 /\ att[a].connectCalls = 1)
    /\ att[a].pc \in {"received", "rejected"} =>
         (att[a].sockets = 0 /\ att[a].connectCalls = 0)

\* after an error, a timeout and a close there is still one connect call
FailedWithoutRetry ==
  \E a \in Attempts :
    /\ att[a].nError >= 1 /\ att[a].nTimeout >= 1 /\ att[a].nClose >= 1
    /\ att[a].outcome # NoOutcome /\ ~att[a].outcome.success
    /\ att[a].sockets = 1 /\ att[a].connectCalls = 1

\* C11: every request gets exactly one response: never two, eventually one;
\* a request that fails validation gets a 400, a Success outcome gets 200
\* with {success: true, message}, a Failure outcome gets 500 with
\* {success: false, error}.
OneResponsePerRequest ==
  /\ [](\A a \in Attempts :
          /\ Len(att[a].responses) <= 1
          /\ (att[a].pc # "received" /\ FailsValidation(att[a].req)) =>
               (Len(att[a].responses) = 1 /\ att[a].responses[1].status = 400)
          /\ (Len(att[a].responses) = 1 /\ att[a].pc = "waiting") =>
               LET r == att[a].responses[1]
               IN  /\ r.body = att[a].outcome
                   /\ r.body.success => r.status = 200 /\ DOMAIN r.body = {"success", "message"}
                   /\ ~r.body.success => r.status = 500 /\ DOMAIN r.body = {"success", "error"})
  /\ \A a \in Attempts : <>(Len(att[a].responses) = 1)

\* a timeout outcome was answered with status 500 and events went on
TimeoutAnswered500 ==
  \E a \in Attempts :
    /\ att[a].responses = <<[status |-> 500, body |-> TimeoutResult]>>
    /\ att[a].nClose >= 1

\* C12 as stated: a request with a present address and the payload [] is
\* answered 400 "Print data is empty" and no connection is attempted.
EmptyPayloadRejectedAsEmpty ==
  \A a \in Attempts :
    ( /\ att[a].pc # "received"
      /\ att[a].req.ip.present /\ att[a].req.ip.chars # <<>>
      /\ att[a].req.data = Arr(<<>>) ) =>
      /\ att[a].responses = <<Status400(EmptyDataBody)>>
      /\ att[a].sockets = 0 /\ att[a].connectCalls = 0

\* C12 amended: a request with a present address and the payload [] is
\* answered 400, never with "Invalid request", and no connection is
\* attempted; the answer is "Print data is empty" when the address matches
\* the pattern and the port passes the range check, and otherwise the
\* failure of the address or port check, which come first.
EmptyPayloadNeverInvalidRequest ==
  \A a \in Attempts :
    ( /\ att[a].pc # "received"
      /\ att[a].req.ip.present /\ att[a].req.ip.chars # <<>>
      /\ att[a].req.data = Arr(<<>>) ) =>
      /\ Len(att[a].responses) = 1
      /\ att[a].responses[1].status = 400
      /\ att[a].responses[1].body # InvalidRequestBody
      /\ att[a].sockets = 0 /\ att[a].connectCalls = 0
      /\ att[a].responses[1].body =
           IF ~FourGroups(att[a].req.ip.chars) THEN InvalidIpBody
           ELSE IF ResolvedPortOutOfRange(att[a].req.port) THEN InvalidPortBody
           ELSE EmptyDataBody

\* the payload [] with a well-formed address was answered "Print data is empty"
EmptyPayloadAnswered ==
  \E a \in Attempts :
    /\ att[a].responses = <<Status400(EmptyDataBody)>>
    /\ att[a].req.data = Arr(<<>>)
    /\ FourGroups(att[a].req.ip.chars)
    /\ att[a].sockets = 0

TornDownAtSettle(a) ==
  att[a].atSettle.destroyed \/ att[a].atSettle.ended \/ att[a].atSettle.closed

WriteOnlyOnConnect ==
  /\ [](\A a \in Attempts :
          /\ att[a].nConnect = 0 => (att[a].written = <<>> /\ ~att[a].ended)
          /\ att[a].printSuccess <=> att[a].ended
          /\ att[a].ended => att[a].written = <<att[a].buffer>>
          /\ att[a].pc = "waiting" =>
               /\ Len(att[a].buffer) = Len(att[a].req.data.elems)
               /\ \A i \in 1..Len(att[a].buffer) :
                    /\ att[a].buffer[i] \in 0..255
                    /\ (att[a].buffer[i] - att[a].req.data.elems[i]) % 256 = 0)
  /\ [][\A a \in Attempts :
          /\ att'[a].written # att[a].written =>
               /\ EventStep(a, "nConnect")
               /\ att'[a].written = Append(att[a].written, att[a].buffer)
          /\ (att[a].nConnect = 0 /\ att[a].nTimeout + att[a].nError + att[a].nClose > 0) =>
               att'[a].written = <<>>]_vars

\* the converted payload was written once and ended
PayloadWrittenAndEnded ==
  \E a \in Attempts :
    /\ att[a].written = << <<44, 255>> >>
    /\ att[a].ended
    /\ att[a].nConnect = 1

SendFailures == { [success |-> FALSE, error |-> "Failed to send data: " \o m] : m \in ThrowMessages }

\* C15: when write or end throws in the connect handler the socket is
\* destroyed before the attempt resolves Failure "Failed to send data:
\* <error>" and printSuccess stays false; the close that follows leaves that
\* outcome, so it becomes neither Success nor "Connection closed
\* unexpectedly".
SendFailureIsFinal ==
  /\ [][\A a \in Attempts :
          (EventStep(a, "nConnect") /\ ~att'[a].ended) =>
            /\ att'[a].destroyed
            /\ att'[a].outcome \in SendFailures
            /\ att'[a].settledBy = "connect"
            /\ att'[a].atSettle.destroyed
            /\ ~att'[a].printSuccess]_vars
  /\ [](\A a \in Attempts :
          att[a].settledBy = "connect" =>
            /\ ~att[a].printSuccess
            /\ att[a].outcome \in SendFailures
            /\ att[a].outcome \notin {SuccessResult, ClosedResult})

\* the write threw, the socket was destroyed and then closed
SendFailedThenClosed ==
  \E a \in Attempts :
    /\ att[a].settledBy = "connect"
    /\ att[a].written = <<>>
    /\ att[a].destroyed
    /\ att[a].nClose = 1

\* C16: a handled request whose address or payload is missing or whose
\* payload is no array is answered 400 "Invalid request" with the message
\* "IP address and data array are required", whatever its other fields; the
\* checks run in the order required fields, address format, port range,
\* emptiness, and the first that fails is the only response.
FirstFailingCheckAnswers ==
  \A a \in Attempts :
    LET req == att[a].req
        missing == \/ ~req.ip.present \/ ~req.data.present
                   \/ req.ip.chars = <<>> \/ ~req.data.isArray
    IN  (att[a].pc # "received" /\ FailsValidation(req)) =>
          att[a].responses =
            << [status |-> 400,
                body |->
                  IF missing
                    THEN [success |-> FALSE, error |-> "Invalid request",
                          message |-> "IP address and data array are required"]
                  ELSE IF ~FourGroups(req.ip.chars)
                    THEN [success |-> FALSE, error |-> "Invalid IP address format"]
                  ELSE IF ResolvedPortOutOfRange(req.port)
                    THEN [success |-> FALSE,
                          error |-> "Invalid port number (must be 1-65535)"]
                  ELSE [success |-> FALSE, error |-> "Print data is empty"]] >>

\* a request failing the address, the port and the emptiness check was
\* answered by the address check
AddressCheckAnsweredFirst ==
  \E a \in Attempts :
    /\ att[a].responses = <<Status400(InvalidIpBody)>>
    /\ att[a].req.port = Num(65536)
    /\ att[a].req.data = Arr(<<>>)

\* what an event on attempt a's socket, or the handling or answering of its
\* request, changes in a step
Stepped(a) ==
  \/ att'[a].pc # att[a].pc
  \/ att'[a].responses # att[a].responses
  \/ \E n \in {"nTimeout", "nError", "nConnect", "nClose"} : EventStep(a, n)

\* C17: with two attempts in flight every step belongs to one attempt and
\* leaves the other's flags, socket, outcome and response as they were, so
\* each attempt's state changes only with its own events; and each attempt
\* still resolves at most once.
AttemptsIndependent ==
  /\ [][\A a \in Pair :
          /\ ~Stepped(a) => att'[a] = att[a]
          /\ Stepped(a) => \A b \in Pair \ {a} : att'[b] = att[b]]_vars
  /\ [](\A a \in Pair : att[a].resolveCalls <= 1)

\* two attempts to the same printer, one succeeded and one timed out
SamePrinterDifferentOutcomes ==
  /\ att[1].req = att[2].req
  /\ att[1].outcome = SuccessResult
  /\ att[2].outcome = TimeoutResult
  /\ att[2].nConnect = 0

\* C18: an outcome of Success implies that the connect event was handled,
\* write and end were issued (connected and printSuccess true), the close
\* event occurred, and the close handler made the only resolve call, so no
\* timeout, error, send failure or connect failure resolved before it.
SuccessOnlyByClose ==
  \A a \in Attempts :
    (att[a].outcome # NoOutcome /\ att[a].outcome.success) =>
      /\ att[a].outcome = [success |-> TRUE, message |-> "Print job sent successfully"]
      /\ att[a].connected /\ att[a].printSuccess
      /\ att[a].nConnect >= 1 /\ att[a].ended /\ att[a].written # <<>>
      /\ att[a].nClose >= 1
      /\ att[a].settledBy = "close"
      /\ att[a].atSettle.closed /\ att[a].atSettle.ended
      /\ att[a].resolveCalls = 1

\* Success was answered with status 200
SuccessAnswered200 ==
  \E a \in Attempts :
    att[a].responses = <<[status |-> 200, body |-> SuccessResult]>>

\* C19: once the close event has been handled the attempt is resolved, and
\* the close branch that resolves nothing (connected true, printSuccess
\* false) is entered only by an attempt that is resolved already.
ClosedImpliesResolved ==
  \A a \in Attempts :
    /\ att[a].nClose >= 1 => (att[a].resolved /\ att[a].outcome # NoOutcome)
    /\ (att[a].connected /\ ~att[a].printSuccess) => att[a].resolved

\* the close handler ran its branch that resolves nothing: connected is
\* true, printSuccess false, and the send failure had resolved before
CloseAfterSendFailure ==
  \E a \in Attempts :
    /\ att[a].connected /\ ~att[a].printSuccess
    /\ att[a].nClose >= 1
    /\ att[a].nTimeout = 0 /\ att[a].nError = 0
    /\ att[a].resolved

\* C20: a timeout that fires after the payload was written and ended and
\* before the close destroys the socket and makes the outcome Failure with
\* the timeout message, and the close that follows does not make it Success.
TimeoutAfterWriteIsFailure ==
  /\ [][\A a \in Attempts :
          (EventStep(a, "nTimeout") /\ WriteIssued(a) /\ att[a].nClose = 0) =>
            /\ att'[a].destroyed
            /\ att'[a].outcome = TimeoutResult]_vars
  /\ [][\A a \in Attempts :
          (EventStep(a, "nClose") /\ WriteIssued(a) /\ att[a].nTimeout >= 1) =>
            /\ att'[a].outcome = TimeoutResult
            /\ att'[a].resolveCalls = 1]_vars

\* written, timed out, closed: the outcome is the timeout
WrittenTimedOutClosed ==
  \E a \in Attempts :
    /\ att[a].printSuccess
    /\ att[a].nTimeout = 1 /\ att[a].nClose = 1
    /\ att[a].outcome = TimeoutResult

=============================================================================
